---------------------------- MODULE Spec2Model ----------------------------
(***************************************************************************)
(* A model of the Derivatives-Pricing-Library notebook (OptionsLib.ipynb):  *)
(* black_scholes (closed-form price and Greeks, vectorised over numpy      *)
(* arrays) and monte_carlo_european (GBM path simulation on the process-   *)
(* wide numpy generator).                                                   *)
(*                                                                         *)
(* Real numbers are fixed-point integers in units of 10^-6 (ONE stands for *)
(* 1.0).  The elementary functions the notebook takes from numpy and scipy *)
(* (exp, log, sqrt, norm.cdf, norm.pdf) are computed by series on that     *)
(* grid, so every formula of the source is evaluated, in the source's own  *)
(* order of operations, to about five decimals.                            *)
(***************************************************************************)
EXTENDS Integers, Sequences, FiniteSets, TLC

(***************************************************************************)
(* Fixed-point arithmetic (the float arithmetic of numpy).                  *)
(***************************************************************************)
\* the limb of the fixed-point products: three decimal digits
B == 10 * 10 * 10
ONE == B * B
HALF == ONE \div 2

Abs(x) == IF x < 0 THEN -x ELSE x
Sgn(x) == IF x < 0 THEN -1 ELSE 1
Max(a, b) == IF a >= b THEN a ELSE b

\* the quotient of a real by a whole number, rounded to the nearest unit
QuoT(a, n) == Sgn(a) * Sgn(n) * ((Abs(a) + Abs(n) \div 2) \div Abs(n))

\* a * b on magnitudes, rounded to the nearest unit, in three-digit limbs so
\* that no partial product leaves the 32-bit range
MulMag(a, b) ==
    LET ah == a \div B
        al == a % B
        bh == b \div B
        bl == b % B
        lo == al * bl
    IN  ah * bh + (ah * bl + al * bh + lo \div B
                   + (IF 2 * (lo % B) >= B THEN 1 ELSE 0) + B \div 2) \div B

\* the product a * b of two reals
MulFix(a, b) == Sgn(a) * Sgn(b) * MulMag(Abs(a), Abs(b))

\* n more decimal digits of r / b (r < b), the last one rounded
RECURSIVE DivDigits(_, _, _, _)
DivDigits(r, b, n, acc) ==
    IF n = 0 THEN acc + (IF 2 * r >= b THEN 1 ELSE 0)
    ELSE DivDigits((r * 10) % b, b, n - 1, acc * 10 + (r * 10) \div b)

\* the quotient a / b of two reals (b # 0), by long division
DivFix(a, b) ==
    LET ma == Abs(a)
        mb == Abs(b)
    IN  Sgn(a) * Sgn(b) * ((ma \div mb) * ONE + DivDigits(ma % mb, mb, 6, 0))

RECURSIVE SqrtNewton(_, _)
SqrtNewton(x, y) ==
    LET y2 == (y + DivFix(x, y)) \div 2
    IN  IF y2 >= y THEN y ELSE SqrtNewton(x, y2)

\* np.sqrt on x >= 0
Sqrt(x) == IF x = 0 THEN 0 ELSE SqrtNewton(x, Max(x, ONE))

RECURSIVE ExpSeries(_, _, _, _)
ExpSeries(x, n, term, acc) ==
    IF term = 0 THEN acc
    ELSE ExpSeries(x, n + 1, QuoT(MulFix(term, x), n + 1), acc + term)

\* np.exp
Exp(x) == IF x >= 0 THEN ExpSeries(x, 0, ONE, 0)
          ELSE DivFix(ONE, ExpSeries(-x, 0, ONE, 0))

RECURSIVE LnSeries(_, _, _, _)
LnSeries(z2, n, pow, acc) ==
    IF pow = 0 THEN acc
    ELSE LnSeries(z2, n + 2, MulFix(pow, z2), acc + QuoT(pow, n))

\* np.log on x > 0: 2 * atanh((x - 1) / (x + 1))
Ln(x) ==
    LET z == DivFix(x - ONE, x + ONE)
    IN  2 * LnSeries(MulFix(z, z), 1, z, 0)

\* 1 / sqrt(2 * pi)
InvSqrt2Pi == 398942

\* scipy.stats.norm.pdf
Pdf(x) == MulFix(InvSqrt2Pi, Exp(-QuoT(MulFix(x, x), 2)))

RECURSIVE CdfSeries(_, _, _, _)
CdfSeries(x2, n, term, acc) ==
    IF term = 0 THEN acc
    ELSE CdfSeries(x2, n + 2, QuoT(MulFix(term, x2), n + 2), acc + term)

\* the mass of the standard normal between 0 and x >= 0
CdfHalf(x) == MulFix(Pdf(x), CdfSeries(MulFix(x, x), 1, x, 0))

\* scipy.stats.norm.cdf
Cdf(x) == IF x >= 0 THEN HALF + CdfHalf(x) ELSE HALF - CdfHalf(-x)

(***************************************************************************)
(* numpy arrays: a shape (<<>> for a 0-d array, <<n>> for a vector) and    *)
(* the elements.  A Python number is held as the 0-d array np.asarray     *)
(* makes of it.                                                            *)
(* Operands are broadcast-compatible, as the pricer requires of its inputs.*)
(***************************************************************************)
Sc(x) == [shape |-> <<>>, data |-> <<x>>]
Vec(xs) == [shape |-> <<Len(xs)>>, data |-> xs]

SizeOf(shape) == IF shape = <<>> THEN 1 ELSE shape[1]

\* numpy's broadcast of two compatible shapes
BroadcastShape(s1, s2) ==
    IF s1 = <<>> THEN s2
    ELSE IF s2 = <<>> THEN s1
    ELSE IF s1[1] = 1 THEN s2 ELSE s1

Compatible(s1, s2) ==
    \/ s1 = <<>>
    \/ s2 = <<>>
    \/ s1[1] = 1
    \/ s2[1] = 1
    \/ s1[1] = s2[1]

\* element i of a, stretched to a broadcast shape
At(a, i) == a.data[IF Len(a.data) = 1 THEN 1 ELSE i]

\* the elements of an array, held as a tuple
Elements(f) == f \o <<>>

\* the shape and the index range of an element-wise result
Shape2(a, b) == BroadcastShape(a.shape, b.shape)
Range2(a, b) == 1..SizeOf(Shape2(a, b))

Add(a, b) ==
    [shape |-> Shape2(a, b),
     data |-> Elements([i \in Range2(a, b) |-> At(a, i) + At(b, i)])]
Sub(a, b) ==
    [shape |-> Shape2(a, b),
     data |-> Elements([i \in Range2(a, b) |-> At(a, i) - At(b, i)])]
Mul(a, b) ==
    [shape |-> Shape2(a, b),
     data |-> Elements([i \in Range2(a, b) |-> MulFix(At(a, i), At(b, i))])]
Div(a, b) ==
    [shape |-> Shape2(a, b),
     data |-> Elements([i \in Range2(a, b) |-> DivFix(At(a, i), At(b, i))])]
NpMaximum(a, b) ==
    [shape |-> Shape2(a, b),
     data |-> Elements([i \in Range2(a, b) |-> Max(At(a, i), At(b, i))])]
Neg(a) ==
    [shape |-> a.shape,
     data |-> Elements([i \in 1..Len(a.data) |-> -a.data[i]])]
NpExp(a) ==
    [shape |-> a.shape,
     data |-> Elements([i \in 1..Len(a.data) |-> Exp(a.data[i])])]
NpLog(a) ==
    [shape |-> a.shape,
     data |-> Elements([i \in 1..Len(a.data) |-> Ln(a.data[i])])]
NpSqrt(a) ==
    [shape |-> a.shape,
     data |-> Elements([i \in 1..Len(a.data) |-> Sqrt(a.data[i])])]
NormCdf(a) ==
    [shape |-> a.shape,
     data |-> Elements([i \in 1..Len(a.data) |-> Cdf(a.data[i])])]
NormPdf(a) ==
    [shape |-> a.shape,
     data |-> Elements([i \in 1..Len(a.data) |-> Pdf(a.data[i])])]
ZerosLike(a) ==
    [shape |-> a.shape, data |-> Elements([i \in 1..Len(a.data) |-> 0])]

\* np.any(t <= 0)
AnyExpired(t) == \E i \in 1..Len(t.data) : t.data[i] <= 0

(***************************************************************************)
(* black_scholes(S, K, r, t, sigma, option_Type, q)                         *)
(***************************************************************************)
InvalidOptionType == "Invalid option type. Choose \"Call\" or \"Put\"."

\* a slip: the difference is returned without the floor at zero
IntrinsicNoFloor(S, K, option_Type) ==
    IF option_Type = "Call" THEN Sub(S, K) ELSE Sub(K, S)

\* the value of the expired contract
Intrinsic(S, K, option_Type) ==
    IF option_Type = "Call" THEN NpMaximum(Sc(0), Sub(S, K))
    ELSE NpMaximum(Sc(0), Sub(K, S))

\* the expiry branch: the intrinsic value and five arrays of zeros
ExpiryResult(S, K, option_Type) ==
    [price |-> Intrinsic(S, K, option_Type),
     delta |-> ZerosLike(S), gamma |-> ZerosLike(S), vega |-> ZerosLike(S),
     theta |-> ZerosLike(S), rho |-> ZerosLike(S)]

D1(S, K, r, t, sigma, q, sqrt_t) ==
    Div(Add(NpLog(Div(S, K)),
            Mul(Add(Sub(r, q), Mul(Sc(HALF), Mul(sigma, sigma))), t)),
        Mul(sigma, sqrt_t))

\* the values both branches of the option type read
Common(S, K, r, t, sigma, q) ==
    LET sqrt_t == NpSqrt(t)
        d1 == D1(S, K, r, t, sigma, q, sqrt_t)
        d2 == Sub(d1, Mul(sigma, sqrt_t))
    IN  [S |-> S, K |-> K, r |-> r, t |-> t, sigma |-> sigma, q |-> q,
         sqrt_t |-> sqrt_t, d1 |-> d1, d2 |-> d2,
         Nd1 |-> NormCdf(d1), Nd2 |-> NormCdf(d2),
         Nmd1 |-> NormCdf(Neg(d1)), Nmd2 |-> NormCdf(Neg(d2)),
         pdf1 |-> NormPdf(d1),
         eqt |-> NpExp(Mul(Neg(q), t)), ert |-> NpExp(Mul(Neg(r), t))]

\* the first term of theta, the same for both option types
ThetaDecay(c) ==
    Div(Mul(Mul(Mul(Neg(c.S), c.sigma), c.eqt), c.pdf1),
        Mul(Sc(2 * ONE), c.sqrt_t))

CallPrice(c) == Sub(Mul(Mul(c.S, c.eqt), c.Nd1), Mul(Mul(c.K, c.ert), c.Nd2))
CallDelta(c) == Mul(c.eqt, c.Nd1)
CallTheta(c) ==
    Add(Sub(ThetaDecay(c), Mul(Mul(Mul(c.r, c.K), c.ert), c.Nd2)),
        Mul(Mul(Mul(c.q, c.S), c.eqt), c.Nd1))
CallRho(c) == Mul(Mul(Mul(c.K, c.t), c.ert), c.Nd2)

\* a slip: the spot is not discounted by the dividend yield
PutPriceNoYield(c) == Sub(Mul(Mul(c.K, c.ert), c.Nmd2), Mul(c.S, c.Nmd1))

PutPrice(c) == Sub(Mul(Mul(c.K, c.ert), c.Nmd2), Mul(Mul(c.S, c.eqt), c.Nmd1))
PutDelta(c) == Mul(c.eqt, c.Nmd1)
PutTheta(c) ==
    Sub(Add(ThetaDecay(c), Mul(Mul(Mul(c.r, c.K), c.ert), c.Nmd2)),
        Mul(Mul(Mul(c.q, c.S), c.eqt), c.Nmd1))
PutRho(c) == Mul(Mul(Mul(Neg(c.K), c.t), c.ert), c.Nmd2)

Gamma(c) == Div(Mul(c.eqt, c.pdf1), Mul(Mul(c.S, c.sigma), c.sqrt_t))
Vega(c) == Mul(Mul(Mul(c.S, c.sqrt_t), c.eqt), c.pdf1)

\* the formula branch, option_Type being Call or Put
FormulaResult(c, option_Type) ==
    IF option_Type = "Call"
    THEN [price |-> CallPrice(c), delta |-> CallDelta(c), gamma |-> Gamma(c),
          vega |-> Vega(c), theta |-> CallTheta(c), rho |-> CallRho(c)]
    ELSE [price |-> PutPrice(c), delta |-> PutDelta(c), gamma |-> Gamma(c),
          vega |-> Vega(c), theta |-> PutTheta(c), rho |-> PutRho(c)]

\* the whole function: what it returns or raises, and the branch it took
black_scholes(a) ==
    IF AnyExpired(a.t)
    THEN [kind |-> "return", branch |-> "expiry",
          value |-> ExpiryResult(a.S, a.K, a.option_Type)]
    ELSE IF a.option_Type \in {"Call", "Put"}
    THEN [kind |-> "return", branch |-> "formula",
          value |-> FormulaResult(Common(a.S, a.K, a.r, a.t, a.sigma, a.q),
                                  a.option_Type)]
    ELSE [kind |-> "raise", branch |-> "formula", exc |-> "ValueError",
          msg |-> InvalidOptionType]

(***************************************************************************)
(* The process-wide generator of np.random: the seed it was last given and *)
(* the number of normal variates drawn since.  A generator nobody has      *)
(* seeded holds a state numpy took from the operating system's entropy,    *)
(* one of EntropyStates; what it would yield is not known and is never     *)
(* read.  Stream(seed) holds the first variates np.random.standard_normal  *)
(* yields after np.random.seed(seed), for the seeds 42 and 0; no variate   *)
(* beyond that window is defined.                                           *)
(***************************************************************************)
Seed == 42

EntropyStates == {-1, -2}

Stream(seed) ==
    CASE seed = 42 ->
           << 496714, -138264, 647689, 1523030, -234153, -234137, 1579213,
              767435, -469474, 542560, -463418, -465730, 241962, -1913280,
              -1724918, -562288, -1012831, 314247, -908024, -1412304 >>
      [] seed = 0 ->
           << 1764052, 400157, 978738, 2240893, 1867558, -977278, 950088,
              -151357, -103219, 410599, 144044, 1454274, 761038, 121675,
              443863, 333674, 1494079, -205158, 313068, -854096 >>

\* the number of variates known after a seeding
Window == Len(Stream(Seed))

\* the k-th variate after seeding with seed, 1 <= k <= Window
Variate(seed, k) == Stream(seed)[k]

\* a slip: only a generator nobody has seeded yet is seeded
NpRandomSeedOnce(g, s) ==
    IF g.seed \in EntropyStates THEN [seed |-> s, pos |-> 0] ELSE g

\* np.random.seed(s)
NpRandomSeed(g, s) == [seed |-> s, pos |-> 0]

\* np.random.standard_normal((n, m)): the matrix, filled row by row
StandardNormal(g, n, m) ==
    [i \in 1..n |-> [j \in 1..m |-> Variate(g.seed, g.pos + (i - 1) * m + j)]]

\* the generator after n * m draws
Advance(g, k) == [seed |-> g.seed, pos |-> g.pos + k]

(***************************************************************************)
(* monte_carlo_european(S0, K, T, r, sigma, option_type,                    *)
(*                      num_simulations, num_steps)                         *)
(***************************************************************************)
InvalidOptionTypeMC == "Invalid Option Type: Choose 'Put' or 'Call'"

\* the factor of one time step, from the variate z
Increment(r, sigma, dt, z) ==
    Exp(MulFix(r - MulFix(HALF, MulFix(sigma, sigma)), dt)
        + MulFix(MulFix(sigma, Sqrt(dt)), z))

\* a slip: column t reads the variate of column t - 1
StepVariateShifted(Zrow, t) == Zrow[t]

\* the variate that column t of the path reads (columns counted from 0)
StepVariate(Zrow, t) == Zrow[t + 1]

\* one row of S after the loop: S[i, 0] = S0, then columns 1 .. m - 1
RECURSIVE PathFrom(_, _, _, _, _, _, _)
PathFrom(path, t, m, r, sigma, dt, Zrow) ==
    IF t >= m THEN path
    ELSE PathFrom(Append(path, MulFix(path[t], Increment(r, sigma, dt,
                                                 StepVariate(Zrow, t)))),
                  t + 1, m, r, sigma, dt, Zrow)

Paths(S0, r, sigma, dt, Z, n, m) ==
    [i \in 1..n |-> PathFrom(<<S0>>, 1, m, r, sigma, dt, Z[i])]

\* a slip: the payoff is not floored at zero
PayoffNoFloor(ST, K, option_type) ==
    IF option_type = "Call" THEN ST - K ELSE K - ST

\* the payoff of one path, option_type being Call or Put
Payoff(ST, K, option_type) ==
    IF option_type = "Call" THEN Max(ST - K, 0) ELSE Max(K - ST, 0)

RECURSIVE SumSeq(_, _)
SumSeq(xs, n) == IF n = 0 THEN 0 ELSE xs[n] + SumSeq(xs, n - 1)

\* np.mean
Mean(xs) == QuoT(SumSeq(xs, Len(xs)), Len(xs))

\* the whole function from generator state g: what it returns or raises,
\* its local arrays, and the generator it leaves behind
monte_carlo_european(a, g) ==
    LET n == a.num_simulations
        m == a.num_steps
        dt == DivFix(a.T, m * ONE)
        g1 == NpRandomSeed(g, Seed)
        Z == StandardNormal(g1, n, m)
        g2 == Advance(g1, n * m)
        S == Paths(a.S0, a.r, a.sigma, dt, Z, n, m)
        ST == [i \in 1..n |-> S[i][m]]
        payoff == [i \in 1..n |-> Payoff(ST[i], a.K, a.option_type)]
    IN  IF a.option_type \in {"Call", "Put"}
        THEN [kind |-> "return", rng |-> g2, Z |-> Z, S |-> S,
              value |-> MulFix(Exp(MulFix(-a.r, a.T)), Mean(payoff))]
        ELSE [kind |-> "raise", rng |-> g2, Z |-> Z, S |-> S,
              exc |-> "ValueError", msg |-> InvalidOptionTypeMC]

(***************************************************************************)
(* The inputs the calls are made with.                                      *)
(***************************************************************************)
\* a real given in thousandths
Milli(x) == x * B

MaxSims == 2
MaxSteps == 3
MaxPos == 1

OptionTypes == {"Call", "Put", "Straddle"}

SValues == {Sc(Milli(90000)), Sc(Milli(100000)), Sc(Milli(110000)),
            Vec(<<Milli(100000), Milli(110000)>>),
            Vec(<<Milli(100000), Milli(105000), Milli(110000)>>)}
KValues == {Sc(Milli(100000)), Sc(Milli(110000)),
            Vec(<<Milli(100000), Milli(110000)>>)}
TValues == {Sc(0), Sc(Milli(-500)), Sc(Milli(500)), Sc(Milli(1000)),
            Vec(<<0, Milli(1000)>>), Vec(<<Milli(1000), Milli(500)>>)}
RValues == {Sc(0), Sc(Milli(50))}
SigmaValues == {Sc(Milli(200)), Sc(Milli(400))}
QValues == {Sc(0), Sc(Milli(20))}

BSArgs ==
    {a \in [S : SValues, K : KValues, r : RValues, t : TValues,
            sigma : SigmaValues, option_Type : OptionTypes, q : QValues] :
        /\ Compatible(a.S.shape, a.K.shape)
        /\ Compatible(a.S.shape, a.t.shape)
        /\ Compatible(a.K.shape, a.t.shape)}

\* the simulations whose variates lie in the known window
MCArgs ==
    {a \in [S0 : {Milli(100000)}, K : {Milli(90000), Milli(110000)},
            T : {Milli(1000)}, r : {Milli(50)}, sigma : {Milli(200)},
            option_type : OptionTypes,
            num_simulations : 1..MaxSims, num_steps : 1..MaxSteps] :
        a.num_simulations * a.num_steps <= Window}

(***************************************************************************)
(* The demonstration cell and the README usage: the variables they set,    *)
(* and the call black_scholes(S, K, T, r, sigma, option_Type=.., q=q).     *)
(***************************************************************************)
DemoCells ==
    [S : {Vec(<<Milli(100000), Milli(105000), Milli(110000)>>)},
     K : {Sc(Milli(110000))}, T : {Sc(Milli(1000))}, r : {Sc(Milli(50))},
     sigma : {Sc(Milli(200))}, q : {Sc(Milli(20))},
     option_Type : {"Call", "Put"}]

\* the parameters of black_scholes, in the order of its signature
BSParams == <<"S", "K", "r", "t", "sigma", "option_Type", "q">>

ParamIndex(name) == CHOOSE i \in 1..Len(BSParams) : BSParams[i] = name

\* Python's binding of positional, then keyword arguments to the parameters
BindArgs(positional, keywords) ==
    [name \in {BSParams[i] : i \in 1..Len(BSParams)} |->
        IF ParamIndex(name) <= Len(positional)
        THEN positional[ParamIndex(name)]
        ELSE keywords[name]]

\* the call the cell makes
DemoCall(c) ==
    BindArgs(<<c.S, c.K, c.T, c.r, c.sigma>>,
             [option_Type |-> c.option_Type, q |-> c.q])

(***************************************************************************)
(* State.                                                                   *)
(*   pc    "idle" (between calls), "called" (a call entered), "returned",  *)
(*         "raised"                                                         *)
(*   fn    the function called                                              *)
(*   args  its arguments, bound to its parameters                           *)
(*   res   what the call returned or raised, with its local arrays          *)
(*   rng   the process-wide generator of np.random                          *)
(*   pre   the generator as the latest call found it                        *)
(*   prev  the first monte_carlo_european call of the run and its outcome   *)
(*         and whether a later call of it has run since (again)             *)
(*   cell  the variables of the demonstration cell that made the call       *)
(***************************************************************************)
VARIABLES pc, fn, args, res, rng, pre, prev, cell

vars == <<pc, fn, args, res, rng, pre, prev, cell>>

None == [kind |-> "none"]
\* the generator as the process starts: in a state drawn from entropy
FreshRngs == {[seed |-> e, pos |-> 0] : e \in EntropyStates}
Done == pc \in {"returned", "raised"}

\* the process has started: nothing is called yet, or a first call is
\* entered with any of the inputs
Init ==
    /\ res = None
    /\ rng \in FreshRngs
    /\ pre = rng
    /\ prev = None
    /\ cell = None
    /\ \E f \in {"none", "black_scholes", "monte_carlo_european"} :
          /\ fn = f
          /\ pc = IF f = "none" THEN "idle" ELSE "called"
          /\ args \in IF f = "none" THEN {None}
                      ELSE IF f = "black_scholes" THEN BSArgs ELSE MCArgs

\* a call of black_scholes runs to its end
BlackScholes ==
    /\ pc = "called"
    /\ fn = "black_scholes"
    /\ res' = black_scholes(args)
    /\ pc' = IF res'.kind = "return" THEN "returned" ELSE "raised"
    /\ pre' = rng
    /\ UNCHANGED <<fn, args, rng, prev, cell>>

\* a call of monte_carlo_european runs to its end
MonteCarlo ==
    /\ pc = "called"
    /\ fn = "monte_carlo_european"
    /\ res' = monte_carlo_european(args, rng)
    /\ pc' = IF res'.kind = "return" THEN "returned" ELSE "raised"
    /\ rng' = res'.rng
    /\ pre' = rng
    /\ prev' = IF prev = None
               THEN [kind |-> "call", args |-> args, res |-> res',
                     again |-> FALSE]
               ELSE [prev EXCEPT !.again = TRUE]
    /\ UNCHANGED <<fn, args, cell>>

\* the caller has taken the outcome and goes on
Continue ==
    /\ Done
    /\ pc' = "idle"
    /\ fn' = "none"
    /\ args' = None
    /\ res' = None
    /\ cell' = None
    /\ pre' = rng
    /\ UNCHANGED <<rng, prev>>

\* between two calls, other code seeds the generator
Reseed ==
    /\ pc = "idle"
    /\ \E s \in {0, Seed} : rng' = NpRandomSeed(rng, s)
    /\ pre' = rng'
    /\ UNCHANGED <<pc, fn, args, res, prev, cell>>

\* between two calls, other code draws a variate
Draw ==
    /\ pc = "idle"
    /\ rng.pos < MaxPos
    /\ rng' = Advance(rng, 1)
    /\ pre' = rng'
    /\ UNCHANGED <<pc, fn, args, res, prev, cell>>

\* the program calls monte_carlo_european again
CallMonteCarlo ==
    /\ pc = "idle"
    /\ pc' = "called"
    /\ fn' = "monte_carlo_european"
    /\ args' \in MCArgs
    /\ UNCHANGED <<res, rng, pre, prev, cell>>

\* the demonstration cell sets its variables and calls black_scholes
RunCell ==
    /\ pc = "idle"
    /\ pc' = "called"
    /\ fn' = "black_scholes"
    /\ cell' \in DemoCells
    /\ args' = DemoCall(cell')
    /\ UNCHANGED <<res, rng, pre, prev>>

Next ==
    \/ BlackScholes
    \/ MonteCarlo
    \/ Continue
    \/ Reseed
    \/ Draw
    \/ CallMonteCarlo
    \/ RunCell

Spec == Init /\ [][Next]_vars

(***************************************************************************)
(* Properties.                                                              *)
(***************************************************************************)
IsBS == fn = "black_scholes"
IsMC == fn = "monte_carlo_european"
SixOf(v) == <<v.price, v.delta, v.gamma, v.vega, v.theta, v.rho>>
Greeks(v) == <<v.delta, v.gamma, v.vega, v.theta, v.rho>>
AllZero(a) == \A i \in 1..Len(a.data) : a.data[i] = 0

\* C1: a call of either pricer with an option type other than "Call" and
\* "Put" ends in the invalid-option-type error and returns nothing.
C1_InvalidTypeRaises ==
    /\ (Done /\ IsBS /\ args.option_Type \notin {"Call", "Put"})
          => (pc = "raised" /\ res.kind = "raise" /\ res.msg = InvalidOptionType)
    /\ (Done /\ IsMC /\ args.option_type \notin {"Call", "Put"})
          => (pc = "raised" /\ res.kind = "raise" /\ res.msg = InvalidOptionTypeMC)

\* C2: black_scholes takes the expiry branch for the whole batch exactly when
\* some element of t is <= 0; it then returns max(0, S-K) for Call and
\* max(0, K-S) for Put, element by element, and five Greeks that are zero
\* everywhere, without evaluating the d1/d2 formulas.
C2_ExpiryPath ==
    (Done /\ IsBS) =>
        IF \E i \in 1..Len(args.t.data) : args.t.data[i] <= 0
        THEN /\ pc = "returned"
             /\ res.branch = "expiry"
             /\ \A k \in 1..5 : AllZero(Greeks(res.value)[k])
             /\ LET sh == BroadcastShape(args.S.shape, args.K.shape)
                    p == res.value.price
                IN  /\ args.option_Type \in {"Call", "Put"} => p.shape = sh
                    /\ args.option_Type = "Call" =>
                          \A i \in 1..SizeOf(sh) :
                             p.data[i] = Max(0, At(args.S, i) - At(args.K, i))
                    /\ args.option_Type = "Put" =>
                          \A i \in 1..SizeOf(sh) :
                             p.data[i] = Max(0, At(args.K, i) - At(args.S, i))
        ELSE res.branch = "formula"

\* C2 witness: a batch with one expired and one live element came back with
\* a positive intrinsic value.
C2_Witness ==
    /\ pc = "returned"
    /\ IsBS
    /\ args.option_Type = "Call"
    /\ Len(args.t.data) = 2
    /\ args.t.data[1] <= 0
    /\ args.t.data[2] > 0
    /\ res.branch = "expiry"
    /\ \E i \in 1..Len(res.value.price.data) : res.value.price.data[i] > 0

\* C3: the six values black_scholes returns share one shape, which (t being a
\* scalar) is the broadcast shape of S and K, on the formula branch and on
\* the expiry branch.
C3_CommonShape ==
    (pc = "returned" /\ IsBS) =>
        /\ \A k \in 1..6 : SixOf(res.value)[k].shape = res.value.price.shape
        /\ args.t.shape = <<>> =>
              res.value.price.shape = BroadcastShape(args.S.shape, args.K.shape)

\* the same call with the other option type
Twin(a) ==
    black_scholes([a EXCEPT !.option_Type =
                       IF a.option_Type = "Call" THEN "Put" ELSE "Call"])

\* the shape S, K and t broadcast to
BatchShape(a) ==
    BroadcastShape(BroadcastShape(a.S.shape, a.K.shape), a.t.shape)

\* S * e^(-q t) - K * e^(-r t) at element i
Forward(a, i) ==
    MulFix(At(a.S, i), Exp(MulFix(-a.q.data[1], At(a.t, i))))
      - MulFix(At(a.K, i), Exp(MulFix(-a.r.data[1], At(a.t, i))))

\* the rounding allowed to a parity: 10^-4, which is 10^-6 of a spot of 100
ParityTol == ONE \div 10000

\* the Call's value minus the Put's, element by element, v being the value
\* the call with arguments a returned and w its twin's
CallMinusPut(a, v, w) ==
    [i \in 1..SizeOf(BatchShape(a)) |->
        IF a.option_Type = "Call" THEN At(v, i) - At(w, i)
        ELSE At(w, i) - At(v, i)]

\* C4 as claimed: on every branch, call price - put price equals
\* S e^(-q t) - K e^(-r t) for each element of the batch.
C4_ParityEverywhere ==
    (pc = "returned" /\ IsBS /\ args.option_Type \in {"Call", "Put"}) =>
        LET diff == CallMinusPut(args, res.value.price, Twin(args).value.price)
        IN  \A i \in 1..Len(diff) :
                Abs(diff[i] - Forward(args, i)) <= ParityTol

\* C4 amended: the parity holds (to rounding) when every t > 0; on the expiry
\* branch call price - put price is exactly S - K, which is the right-hand
\* side for the elements whose t is 0.
C4_ParityAmended ==
    (pc = "returned" /\ IsBS /\ args.option_Type \in {"Call", "Put"}) =>
        LET diff == CallMinusPut(args, res.value.price, Twin(args).value.price)
        IN  \A i \in 1..Len(diff) :
                IF res.branch = "formula"
                THEN Abs(diff[i] - Forward(args, i)) <= ParityTol
                ELSE /\ diff[i] = At(args.S, i) - At(args.K, i)
                     /\ At(args.t, i) = 0 => diff[i] = Forward(args, i)

\* C4 witness: a Put priced by the formulas, with a rate and a dividend yield.
C4_Witness ==
    /\ pc = "returned"
    /\ IsBS
    /\ res.branch = "formula"
    /\ args.option_Type = "Put"
    /\ args.q.data[1] > 0
    /\ args.r.data[1] > 0
    /\ res.value.price.data[1] > 0

\* C5: with every t > 0, delta(Call) - delta(Put) equals e^(-q t).
C5_DeltaSymmetry ==
    (pc = "returned" /\ IsBS /\ res.branch = "formula") =>
        LET diff == CallMinusPut(args, res.value.delta, Twin(args).value.delta)
        IN  \A i \in 1..Len(diff) :
                Abs(diff[i] - Exp(MulFix(-args.q.data[1], At(args.t, i))))
                   <= ParityTol

\* C6: every value monte_carlo_european returns is >= 0.
C6_NonNegative == (pc = "returned" /\ IsMC) => res.value >= 0

\* C6 witness: a Put came back with a path that ended above the strike, whose
\* payoff was floored.
C6_Witness ==
    /\ pc = "returned"
    /\ IsMC
    /\ args.option_type = "Put"
    /\ \E i \in 1..args.num_simulations :
          res.S[i][args.num_steps] > args.K

\* C7: a call of monte_carlo_european with the parameters of the first call of
\* the run has the outcome that call had, whatever the generator's state when
\* it was entered.
C7_Deterministic ==
    (Done /\ IsMC /\ prev # None /\ prev.args = args) => res = prev.res

\* C7 witness: a later call of the run priced the parameters of the first call
\* again, entered with a generator that other code had seeded with 0 and drawn
\* from in between.
C7_Witness ==
    /\ pc = "returned"
    /\ IsMC
    /\ prev # None
    /\ prev.again
    /\ prev.args = args
    /\ pre.seed = 0
    /\ pre.pos > 0
    /\ args.num_steps > 1
    /\ res.value > 0

\* C8: a call of monte_carlo_european that raises for its option type leaves
\* the process-wide generator as it found it.
C8_FailFast == (pc = "raised" /\ IsMC) => rng = pre

\* the prices the notebook printed for the demonstration cell
RefCall == <<355806, 2001765, 5586653>>
RefPut == <<5090993, 1741949, 331835>>

\* how far the notebook's printed prices may lie from the model's
RefTol == ONE \div 1000

\* the call the cell's variable names describe: t = T and r = r
IntendedCall(c) ==
    [S |-> c.S, K |-> c.K, r |-> c.r, t |-> c.T, sigma |-> c.sigma,
     option_Type |-> c.option_Type, q |-> c.q]

Near(a, ref) ==
    /\ Len(a.data) = Len(ref)
    /\ \A i \in 1..Len(ref) : Abs(a.data[i] - ref[i]) <= RefTol

\* C9: the demonstration call prices with time to expiry T = 1 and rate
\* r = 0.05, and the printed prices are the prices for those inputs.
C9_DemoInputs ==
    (pc = "returned" /\ cell # None) =>
        /\ args.t = cell.T
        /\ args.r = cell.r
        /\ Near(black_scholes(IntendedCall(cell)).value.price,
                IF cell.option_Type = "Call" THEN RefCall ELSE RefPut)

\* The demonstration call returns the prices the notebook printed.
DemoReproducesNotebook ==
    (pc = "returned" /\ cell # None) =>
        Near(res.value.price,
             IF cell.option_Type = "Call" THEN RefCall ELSE RefPut)

\* C10: every path has num_steps columns, the first S0 and each later one the
\* one before it times exp((r - sigma^2/2) dt + sigma sqrt(dt) Z[i, j]) with
\* dt = T / num_steps; column 0 of Z is drawn and not read; the terminal price
\* of a path is its last column, so the value returned is e^(-r T) times the
\* mean of the payoffs at column num_steps; with one step that is e^(-r T)
\* times the payoff at S0.
C10_PathShape ==
    (Done /\ IsMC) =>
        LET n == args.num_simulations
            m == args.num_steps
            dt == DivFix(args.T, m * ONE)
            drift == MulFix(args.r - MulFix(HALF, MulFix(args.sigma, args.sigma)), dt)
            vol == MulFix(args.sigma, Sqrt(dt))
            Zeroed == [i \in 1..n |-> [res.Z[i] EXCEPT ![1] = 0]]
        IN  /\ Len(res.Z) = n
            /\ Len(res.S) = n
            /\ rng.pos = n * m
            /\ \A i \in 1..n :
                  /\ Len(res.Z[i]) = m
                  /\ Len(res.S[i]) = m
                  /\ res.S[i][1] = args.S0
                  /\ \A j \in 1..(m - 1) :
                        res.S[i][j + 1] =
                           MulFix(res.S[i][j],
                                  Exp(drift + MulFix(vol, res.Z[i][j + 1])))
            /\ Paths(args.S0, args.r, args.sigma, dt, Zeroed, n, m) = res.S
            /\ (pc = "returned") =>
                  res.value =
                     MulFix(Exp(MulFix(-args.r, args.T)),
                            Mean([i \in 1..n |->
                                    Payoff(res.S[i][m], args.K,
                                           args.option_type)]))
            /\ (m = 1 /\ pc = "returned") =>
                  res.value =
                     MulFix(Exp(MulFix(-args.r, args.T)),
                            IF args.option_type = "Call"
                            THEN Max(args.S0 - args.K, 0)
                            ELSE Max(args.K - args.S0, 0))

\* C10 witness: a simulation of two paths of three steps that moved at every
\* step and returned a positive value which the payoffs at no earlier column
\* would give.
C10_Witness ==
    /\ pc = "returned"
    /\ IsMC
    /\ args.num_steps = 3
    /\ args.num_simulations = 2
    /\ res.S[1][3] # res.S[1][2]
    /\ res.S[2][2] # args.S0
    /\ res.value > 0
    /\ \A j \in 1..2 :
          res.value #
             MulFix(Exp(MulFix(-args.r, args.T)),
                    Mean([i \in 1..2 |->
                            Payoff(res.S[i][j], args.K, args.option_type)]))

=============================================================================
